---- MODULE Spec2Model ----
(***************************************************************************)
(* Image Sonifier: the App component (src/App.tsx) as a state machine over *)
(* the browser's event loop, and the pure functions of services/audioUtils *)
(* (src/unnamed/part_004) as operators over a small model of JS numbers.   *)
(*                                                                         *)
(* Units.  Times are milliseconds.  Settings: maxSize in px, density and   *)
(* duration in tenths (10 = 1.0), minFreq and maxFreq in Hz.  A luminance  *)
(* cell c stands for c / AmpScale.  A wave value w stands for w / WaveScale *)
(* and a phase index k for k / PhaseRes of a cycle.                        *)
(***************************************************************************)
EXTENDS Integers, Sequences, FiniteSets, TLC

(***************************************************************************)
(* Bounds of the model.                                                    *)
(***************************************************************************)
MaxChanges == 2      \* calls of handleSettingsChange in one behaviour
MaxLoads == 1        \* files handed to processFile in one behaviour

(***************************************************************************)
(* Program constants.                                                      *)
(***************************************************************************)
DebounceMs == 250
TickMs == DebounceMs \div 2

Null == <<>>
Some(x) == <<x>>

Abs(x) == IF x < 0 THEN -x ELSE x
Max(a, b) == IF a >= b THEN a ELSE b
Min(a, b) == IF a <= b THEN a ELSE b

WaveShapes == {"sin", "square", "sawtooth", "triangle"}

InitialSettings ==
    [maxSize |-> 256, density |-> 10, duration |-> 60,
     minFreq |-> 200, maxFreq |-> 8000, waveShape |-> "sin"]

\* The values the user gives the ControlPanel's controls in the model: each
\* is a Partial<Settings> of one field, within the control's min/max/step.
SliderMin(field) ==
    IF field = "maxSize" THEN 64
    ELSE IF field = "density" THEN 1
    ELSE IF field = "duration" THEN 10
    ELSE IF field = "minFreq" THEN 20
    ELSE 1000

\* Faulty variant: the Min Frequency slider goes as far as the Max Frequency one.
SliderMaxShared(field) ==
    IF field = "maxSize" THEN 1024
    ELSE IF field = "density" THEN 100
    ELSE IF field = "duration" THEN 200
    ELSE 20000

\* The min and max attributes of the sliders (density and duration in tenths).
SliderMax(field) ==
    IF field = "maxSize" THEN 1024
    ELSE IF field = "density" THEN 100
    ELSE IF field = "duration" THEN 200
    ELSE IF field = "minFreq" THEN 1000
    ELSE 20000

SliderPatches ==
    { [field |-> "maxSize", value |-> SliderMin("maxSize")],
      [field |-> "minFreq", value |-> SliderMax("minFreq")] }

\* The two frequency sliders, each at the end next to the other's range.
FrequencySliders ==
    { [field |-> "minFreq", value |-> SliderMax("minFreq")],
      [field |-> "maxFreq", value |-> SliderMin("maxFreq")] }

ShapePatches == { [field |-> "waveShape", value |-> "square"] }

ControlPanel == SliderPatches \cup ShapePatches

\* { ...settings, ...newSettings } for a patch of one field.
Merge(s, p) == [s EXCEPT ![p.field] = p.value]

(***************************************************************************)
(* Luminance matrices and the Parameter Advisor.                           *)
(***************************************************************************)
AppSampleRate == 44100

AmpScale == 2        \* a cell c of a matrix is the luminance c / AmpScale
Fx == 1000            \* fixed-point unit of the advisor's contrast

RECURSIVE SumSeq(_)
SumSeq(q) == IF q = <<>> THEN 0 ELSE Head(q) + SumSeq(Tail(q))

RECURSIVE Flat(_)
Flat(m) == IF m = <<>> THEN <<>> ELSE Head(m) \o Flat(Tail(m))

RECURSIVE ISqrtIn(_, _, _)
ISqrtIn(n, lo, hi) ==
    IF lo >= hi THEN lo
    ELSE LET mid == (lo + hi + 1) \div 2
         IN  IF mid * mid <= n THEN ISqrtIn(n, mid, hi) ELSE ISqrtIn(n, lo, mid - 1)

\* Math.sqrt, rounded down to an integer (46340 is the root of the largest
\* integer of the model checker).
ISqrt(n) == ISqrtIn(n, 0, Min(n, 46340))

\* x.toFixed(0) or x.toFixed(1) of the non-negative a / b, as an integer count of
\* units: the nearest one.
RoundDiv(a, b) == (2 * a + b) \div (2 * b)

EmptyPatch == [set |-> FALSE, duration |-> 0, minFreq |-> 0, maxFreq |-> 0]

\* Faulty variant: the range starts from 6000 Hz.
AdvisedFreqRangeWide(contrast) == 6000 * Fx + contrast * 30000

\* freqRange = 2000 + contrast * 30000, in counts of 1 / Fx.
AdvisedFreqRange(contrast) == 2000 * Fx + contrast * 30000

\* Faulty variant: the brightness weighs twice as much.
AdvisedDurationLong(sum, n) == RoundDiv(30 * AmpScale * n + 180 * sum, AmpScale * n)

\* (3.0 + brightness * 9.0).toFixed(1) in tenths, brightness = sum / (AmpScale * n).
AdvisedDuration(sum, n) == RoundDiv(30 * AmpScale * n + 90 * sum, AmpScale * n)

analyzeImageForAudioSettings(imageArray) ==
    IF Len(imageArray) = 0 \/ Len(imageArray[1]) = 0
    THEN EmptyPatch
    ELSE LET flatValues == Flat(imageArray)
             n == Len(flatValues)
             sum == SumSeq(flatValues)
             \* contrast = sqrt(sum((b - mean)^2) / n), in units of 1 / Fx
             sq == SumSeq([i \in 1 .. n |-> (flatValues[i] * n - sum) * (flatValues[i] * n - sum)])
             contrast == ISqrt((sq * Fx * Fx) \div (AmpScale * AmpScale * n * n * n))
             freqRange == AdvisedFreqRange(contrast)
             minFreq == Max(20 * Fx, 400 * Fx - contrast * 700)
             maxFreq == Min(20000 * Fx, minFreq + freqRange)
         IN  [set |-> TRUE,
              \* duration = 3.0 + brightness * 9.0, in tenths
              duration |-> AdvisedDuration(sum, n),
              minFreq |-> RoundDiv(minFreq, Fx),
              maxFreq |-> RoundDiv(maxFreq, Fx)]

\* Faulty variant: the fields of an empty patch are written too.
MergePatchUnset(s, p) ==
    [s EXCEPT !.duration = p.duration, !.minFreq = p.minFreq, !.maxFreq = p.maxFreq]

\* { ...settings, ...newSettings } for the advisor's patch.
MergePatch(s, p) ==
    IF p.set
    THEN [s EXCEPT !.duration = p.duration, !.minFreq = p.minFreq, !.maxFreq = p.maxFreq]
    ELSE s

\* The luminance matrix the canvas yields for each image of the model (the
\* browser's resampling to width x height is not modelled: the content of an
\* image is the same at every size).
ImageArray(img) ==
    IF img = 1 THEN << <<1, 1>>, <<1, 1>> >>
    ELSE << <<2, 0>>, <<0, 2>> >>

\* The advisor's patch for each image of the model.
AdvisedPatch ==
    [img \in {1, 2} |-> analyzeImageForAudioSettings(ImageArray(img))]

(***************************************************************************)
(* JS numbers.  A number is a fraction n / d with d > 0, NaN, or an        *)
(* infinity (n is its sign).  Fractions are exact: the rounding of doubles *)
(* and of Float32Array elements is not modelled.                           *)
(***************************************************************************)
Num(n, d) == [k |-> "num", n |-> n, d |-> d]
NaN == [k |-> "nan", n |-> 0, d |-> 1]
Infinity(sign) == [k |-> "inf", n |-> sign, d |-> 1]

Sign(x) == IF x > 0 THEN 1 ELSE IF x < 0 THEN -1 ELSE 0

IsNaN(x) == x.k = "nan"
IsFinite(x) == x.k = "num"
IsZero(x) == x.k = "num" /\ x.n = 0

\* a / b for integers a and b.
JsDiv(a, b) ==
    IF b = 0 THEN (IF a = 0 THEN NaN ELSE Infinity(Sign(a)))
    ELSE IF b < 0 THEN Num(-a, -b)
    ELSE Num(a, b)

\* x * c for an integer c.
JsTimes(x, c) ==
    IF x.k = "num" THEN Num(x.n * c, x.d)
    ELSE IF x.k = "inf" /\ c # 0 THEN Infinity(x.n * Sign(c))
    ELSE NaN

\* c - x for an integer c.
JsMinus(c, x) ==
    IF x.k = "num" THEN Num(c * x.d - x.n, x.d)
    ELSE IF x.k = "inf" THEN Infinity(-x.n)
    ELSE NaN

\* x + y.
JsPlus(x, y) ==
    IF x.k = "num" /\ y.k = "num" THEN Num(x.n * y.d + y.n * x.d, x.d * y.d)
    ELSE IF x.k = "nan" \/ y.k = "nan" THEN NaN
    ELSE IF x.k = "inf" /\ y.k = "inf" /\ x.n # y.n THEN NaN
    ELSE IF x.k = "inf" THEN x
    ELSE y

\* x / y.
JsOver(x, y) ==
    IF x.k = "nan" \/ y.k = "nan" THEN NaN
    ELSE IF x.k = "inf" THEN (IF y.k = "inf" THEN NaN
                              ELSE Infinity(x.n * (IF y.n < 0 THEN -1 ELSE 1)))
    ELSE IF y.k = "inf" THEN Num(0, 1)
    ELSE IF y.n = 0 THEN (IF x.n = 0 THEN NaN ELSE Infinity(Sign(x.n)))
    ELSE IF y.n < 0 THEN Num(-(x.n * y.d), -(x.d * y.n))
    ELSE Num(x.n * y.d, x.d * y.n)

\* Math.abs(x).
JsAbs(x) == IF x.k = "num" THEN Num(Abs(x.n), x.d) ELSE IF x.k = "inf" THEN Infinity(1) ELSE x

\* x > y: false when either is NaN.
JsGreater(x, y) ==
    IF x.k = "nan" \/ y.k = "nan" THEN FALSE
    ELSE IF x.k = "inf" THEN x.n > 0 /\ ~(y.k = "inf" /\ y.n > 0)
    ELSE IF y.k = "inf" THEN y.n < 0
    ELSE x.n * y.d > y.n * x.d

\* x = y as numbers (never for NaN).
JsEquals(x, y) ==
    IF x.k = "nan" \/ y.k = "nan" THEN FALSE
    ELSE IF x.k = "inf" \/ y.k = "inf" THEN x.k = y.k /\ x.n = y.n
    ELSE x.n * y.d = y.n * x.d

\* Math.floor(x) of a fraction.
JsFloor(x) == IF x.k = "num" THEN Num(x.n \div x.d, 1) ELSE x

(***************************************************************************)
(* generateAudioFromImage.                                                 *)
(***************************************************************************)
WaveScale == 1000    \* a wave value w is the number w / WaveScale
PhaseRes == 8        \* a phase index k is the phase 2 * pi * k / PhaseRes

\* Math.sin(2 * pi * k / PhaseRes) * WaveScale, to the nearest integer.
SinTable == <<0, 707, 1000, 707, 0, -707, -1000, -707>>

\* The phase freq * time, time = t_idx / sampleRate, as an index of SinTable's
\* grid of eighths of a cycle (rounded down when it is off the grid).  The wave
\* values are those of the real-valued phase: a double's sin(2 * pi * k) is a
\* rounding residue of either sign, here it is 0.
PhaseIndex(freq, t_idx, sampleRate) ==
    (freq.n * t_idx * PhaseRes) \div (freq.d * sampleRate)

\* The switch over waveShape: the value of the wave of `freq` at t_idx.
WaveSample(waveShape, freq, t_idx, sampleRate) ==
    IF ~IsFinite(freq)
    THEN \* Math.sin(NaN) is NaN, and NaN >= 0 is false
         IF waveShape = "square" THEN Num(-WaveScale, WaveScale) ELSE NaN
    ELSE LET k == PhaseIndex(freq, t_idx, sampleRate)
             m == k % PhaseRes
             sin == SinTable[m + 1]
         IN  CASE waveShape = "square" ->
                    Num(IF sin >= 0 THEN WaveScale ELSE -WaveScale, WaveScale)
               [] waveShape = "sawtooth" ->
                    \* 2 * (p - floor(p + 0.5)), p = k / PhaseRes
                    Num((2 * WaveScale * (k - PhaseRes * ((2 * k + PhaseRes) \div (2 * PhaseRes))))
                            \div PhaseRes,
                        WaveScale)
               [] waveShape = "triangle" ->
                    \* (2 / pi) * asin(sin(phase))
                    Num((IF 4 * m <= PhaseRes THEN 4 * m * WaveScale
                         ELSE IF 4 * m <= 3 * PhaseRes THEN (2 * PhaseRes - 4 * m) * WaveScale
                         ELSE (4 * m - 4 * PhaseRes) * WaveScale) \div PhaseRes,
                        WaveScale)
               [] OTHER -> Num(sin, WaveScale)

\* Faulty variant: the last row is mapped as if there were one more row.
RowFrequencyOverHeight(i, height, minFreq, maxFreq) ==
    JsMinus(maxFreq, JsTimes(JsDiv(i, height), maxFreq - minFreq))

\* freqs[i] = maxFreq - (i / (height - 1)) * (maxFreq - minFreq).
RowFrequency(i, height, minFreq, maxFreq) ==
    JsMinus(maxFreq, JsTimes(JsDiv(i, height - 1), maxFreq - minFreq))

\* Faulty variant: the number of samples is rounded up.
SamplesPerColumnCeil(sampleRate, durationPerColumn) ==
    -((-(sampleRate * durationPerColumn.n)) \div durationPerColumn.d)

\* samplesPerColumn = Math.floor(sampleRate * durationPerColumn), for the
\* durationPerColumn n / d.
SamplesPerColumn(sampleRate, durationPerColumn) ==
    (sampleRate * durationPerColumn.n) \div durationPerColumn.d

\* The body of the loop over rows: the sum of amplitude * waveSample over the
\* rows of column `col` whose amplitude is > 0.
RECURSIVE ColumnSample(_, _, _, _, _, _, _)
ColumnSample(imageArray, freqs, row, col, t_idx, sampleRate, waveShape) ==
    IF row > Len(imageArray) THEN Num(0, AmpScale * WaveScale)
    ELSE LET rest == ColumnSample(imageArray, freqs, row + 1, col, t_idx, sampleRate, waveShape)
             amplitude == imageArray[row][col]
         IN  IF amplitude > 0
             THEN LET w == WaveSample(waveShape, freqs[row], t_idx, sampleRate)
                  IN  IF IsNaN(w) \/ IsNaN(rest) THEN NaN
                      ELSE Num(amplitude * w.n + rest.n, AmpScale * WaveScale)
             ELSE rest

\* Faulty variant: the peak is taken over the samples, not over their absolute values.
LouderSigned(sample, maxAmplitude) == JsGreater(sample, maxAmplitude)

\* Math.abs(sample) > maxAmplitude.
Louder(sample, maxAmplitude) == JsGreater(JsAbs(sample), maxAmplitude)

\* maxAmplitude after the loops: the scan of the samples in order.
RECURSIVE MaxAmplitude(_, _, _)
MaxAmplitude(audio, i, maxAmplitude) ==
    IF i > Len(audio) THEN maxAmplitude
    ELSE MaxAmplitude(audio, i + 1,
             IF Louder(audio[i], maxAmplitude) THEN JsAbs(audio[i]) ELSE maxAmplitude)

\* Faulty variant: the division is not guarded.
NormalizeUnguarded(audio, maxAmplitude) ==
    [i \in 1 .. Len(audio) |-> JsOver(audio[i], maxAmplitude)]

\* if (maxAmplitude > 0) audio[i] /= maxAmplitude, for every i.
Normalize(audio, maxAmplitude) ==
    IF JsGreater(maxAmplitude, Num(0, 1))
    THEN [i \in 1 .. Len(audio) |-> JsOver(audio[i], maxAmplitude)]
    ELSE audio

\* Faulty variant: imageArray[0].length without the optional chaining throws for a
\* matrix of no rows.
MatrixWidthUnchained(imageArray) ==
    IF Len(imageArray) = 0 THEN -1 ELSE Len(imageArray[1])

\* imageArray[0]?.length || 0 (a result below 0 stands for a TypeError).
MatrixWidth(imageArray) ==
    IF Len(imageArray) = 0 THEN 0 ELSE Len(imageArray[1])

\* Faulty variant: the time runs on from one column to the next.
TimeIndexRunning(audioIndex, samplesPerColumn) == audioIndex

\* t_idx of audioIndex = col * samplesPerColumn + t_idx.
TimeIndex(audioIndex, samplesPerColumn) == audioIndex % samplesPerColumn

\* col of audioIndex = col * samplesPerColumn + t_idx.
ColumnIndex(audioIndex, samplesPerColumn) == audioIndex \div samplesPerColumn

\* `raw` is the audio array before the normalisation loop, `audio` after it.
Resolved(raw, audio, freqs, maxAmplitude) ==
    [status |-> "resolved", raw |-> raw, audio |-> audio, freqs |-> freqs,
     maxAmplitude |-> maxAmplitude]

\* The promise is rejected: the executor threw.
Rejected ==
    [status |-> "rejected", raw |-> <<>>, audio |-> <<>>, freqs |-> <<>>,
     maxAmplitude |-> Num(0, 1)]

generateAudioFromImage(imageArray, sampleRate, durationPerColumn, minFreq, maxFreq, waveShape) ==
    LET height == Len(imageArray)
        width == MatrixWidth(imageArray)
    IN  IF width < 0 THEN Rejected
        ELSE IF width = 0 \/ height = 0 THEN Resolved(<<>>, <<>>, <<>>, Num(0, 1))
        ELSE
        LET samplesPerColumn == SamplesPerColumn(sampleRate, durationPerColumn)
            totalSamples == samplesPerColumn * width
        IN  \* new Float32Array(totalSamples) throws a RangeError below 0
            IF totalSamples < 0 THEN Rejected
            ELSE
            LET freqs == [r \in 1 .. height |-> RowFrequency(r - 1, height, minFreq, maxFreq)]
                raw == [a \in 1 .. totalSamples |->
                          ColumnSample(imageArray, freqs, 1,
                                       ColumnIndex(a - 1, samplesPerColumn) + 1,
                                       TimeIndex(a - 1, samplesPerColumn),
                                       sampleRate, waveShape)]
                maxAmplitude == MaxAmplitude(raw, 1, Num(0, 1))
            IN  Resolved(raw, Normalize(raw, maxAmplitude), freqs, maxAmplitude)

(***************************************************************************)
(* State of the App component and of the browser around it.                *)
(***************************************************************************)
VARIABLES
    settings,                  \* useState<Settings>
    audioBuffer,               \* useState<Float32Array | null>: Null, or Some of
                               \* the (image, settings) the buffer was generated from
    isLoading,                 \* useState<boolean>
    imageSrc,                  \* useState<string | null>: 0 is null, else the image
    mounted,                   \* the component has not been unmounted
    debouncedProcessImageRef,  \* useRef<number | null>: 0 is null, else a timer id
    timers,                    \* the browser's pending timeouts
    nextTimerId,               \* the id window.setTimeout returns next
    decoding,                  \* Image elements of timer callbacks, onload pending
    fileLoads,                 \* files read by processFile, img.onload pending
    task,                      \* the async function that is between two awaits
    calls,                     \* history: the calls of handleSettingsChange
    starts,                    \* history: the calls of processAndUpdateAudio
    nLoads,                    \* history: the number of files handed to processFile
    synthArgs,                 \* the arguments of a call of generateAudioFromImage
    synthResult,               \* Null, or Some of what the call's promise settled to
    spectroArgs,               \* the arguments of a call of computeSpectrogramData
    frameIndex,                \* the i of its frame loop
    spectrogram,               \* its spectrogram: the dB magnitudes pushed so far
    times,                     \* its times: the labels pushed so far
    spectroResult,             \* Null, or Some of what the call returned
    wavArgs,                   \* the arguments of a call of encodeWAV
    wavResult,                 \* Null, or Some of the bytes of the Blob it returned
    adviceArgs,                \* a matrix for analyzeImageForAudioSettings, and the
                               \* settings its patch is merged into
    adviceResult,              \* Null, or Some of the patch the call resolved to
    mergedSettings,            \* Null, or Some of the finalSettings merged from them
    grayArgs,                  \* the arguments of a call of imageToGrayscaleArray
    grayResult,                \* Null, or Some of what its promise settled to
    isPlaying,                 \* useState<boolean>
    audioSourceRef,            \* audioSourceRef.current: 0 for null, or the number of a source
    sources,                   \* the AudioBufferSourceNodes started so far, each by its state
    plays                      \* calls of handlePlay so far

appVars ==
    <<settings, audioBuffer, isLoading, imageSrc, mounted, debouncedProcessImageRef,
      timers, nextTimerId, decoding, fileLoads, task, calls, starts, nLoads>>

\* The images the user can pick.
Images == {1, 2}

synthVars == <<synthArgs, synthResult>>

spectroVars == <<spectroArgs, frameIndex, spectrogram, times, spectroResult>>

wavVars == <<wavArgs, wavResult>>

adviceVars == <<adviceArgs, adviceResult, mergedSettings>>

grayVars == <<grayArgs, grayResult>>

playVars == <<isPlaying, audioSourceRef, sources, plays>>

AppInit ==
    /\ settings = InitialSettings
    /\ audioBuffer = Null
    /\ isLoading = FALSE
    /\ imageSrc = 0
    /\ mounted = TRUE
    /\ debouncedProcessImageRef = 0
    /\ timers = {}
    /\ nextTimerId = 1
    /\ decoding = {}
    /\ fileLoads = {}
    /\ task = Null
    /\ calls = <<>>
    /\ starts = <<>>
    /\ nLoads = 0

\* A task of the event loop is taken only when no async function waits on a
\* resolved promise: the continuations after `await` are microtasks, and the
\* promises of imageToGrayscaleArray, analyzeImageForAudioSettings and
\* generateAudioFromImage are settled when they are awaited.
Idle == task = Null

\* A timeout whose delay has elapsed runs before the clock moves on and before
\* a settings change that arrives at or after its deadline.
NoDueTimer == \A t \in timers : t.remaining > 0

\* The user can operate the rendered controls.
Interactive == mounted /\ Idle /\ ~isLoading

\* setState of a component that is no longer mounted changes nothing.
SetState(new, old) == IF mounted THEN new ELSE old

\* Faulty variant: the finally block leaves isLoading as it is.
FinallyKept(loading) == loading

\* finally { setIsLoading(false) }: the value isLoading is set to.
Finally(loading) == FALSE

\* Faulty variant: clearTimeout is not called.
ClearTimeoutSkipped(pending, id) == pending

\* clearTimeout(id): the timeout, if still pending, never runs.
ClearTimeout(pending, id) == { t \in pending : t.id # id }

\* The generated Float32Array, named by what generateAudioFromImage was given:
\* the image the matrix was drawn from and the settings that gave the matrix
\* size, durationPerColumn, minFreq, maxFreq and waveShape.
GeneratedAudio(img, s) == Some([img |-> img, settings |-> s])

(***************************************************************************)
(* handleSettingsChange, and the timer callback it schedules.              *)
(***************************************************************************)
handleSettingsChange(newSettings) ==
    /\ Interactive
    /\ NoDueTimer
    /\ Len(calls) < MaxChanges
    /\ settings[newSettings.field] # newSettings.value
    /\ LET updatedSettings == Merge(settings, newSettings)
           cleared == IF debouncedProcessImageRef # 0
                      THEN ClearTimeout(timers, debouncedProcessImageRef)
                      ELSE timers
       IN  /\ settings' = updatedSettings
           /\ IF imageSrc # 0
              THEN /\ timers' = cleared \cup
                        { [id |-> nextTimerId, remaining |-> DebounceMs,
                           settings |-> updatedSettings, img |-> imageSrc] }
                   /\ debouncedProcessImageRef' = nextTimerId
                   /\ nextTimerId' = nextTimerId + 1
              ELSE /\ timers' = cleared
                   /\ UNCHANGED <<debouncedProcessImageRef, nextTimerId>>
           /\ calls' = Append(calls,
                  [timer |-> IF imageSrc # 0 THEN nextTimerId ELSE 0,
                   settings |-> updatedSettings,
                   gap |-> IF calls = <<>> THEN DebounceMs ELSE calls[Len(calls)].age,
                   age |-> 0])
    /\ UNCHANGED <<audioBuffer, isLoading, imageSrc, mounted, decoding, fileLoads,
                   task, starts, nLoads>>

\* The timeout's callback: const img = new Image(); img.onload = ...; img.src = imageSrc.
TimerFire(t) ==
    /\ Idle
    /\ t \in timers
    /\ t.remaining = 0
    /\ timers' = timers \ {t}
    /\ decoding' = decoding \cup { [timer |-> t.id, settings |-> t.settings, img |-> t.img] }
    /\ UNCHANGED <<settings, audioBuffer, isLoading, imageSrc, mounted,
                   debouncedProcessImageRef, nextTimerId, fileLoads, task,
                   calls, starts, nLoads>>

(***************************************************************************)
(* processAndUpdateAudio, one action per stretch between two awaits.       *)
(***************************************************************************)
\* img.onload of the timer callback's image: processAndUpdateAudio runs up to
\* `await imageToGrayscaleArray(...)`.
processAndUpdateAudio(d) ==
    /\ Idle
    /\ d \in decoding
    /\ decoding' = decoding \ {d}
    /\ isLoading' = SetState(TRUE, isLoading)
    /\ task' = Some([kind |-> "process", stage |-> "imageArray",
                     settings |-> d.settings, img |-> d.img, final |-> d.settings])
    /\ starts' = Append(starts,
           [timer |-> d.timer, settings |-> d.settings,
            delay |-> SumSeq([i \in 1 .. Len(calls) |->
                                 IF calls[i].timer = d.timer THEN calls[i].age ELSE 0])])
    /\ UNCHANGED <<settings, audioBuffer, imageSrc, mounted, debouncedProcessImageRef,
                   timers, nextTimerId, fileLoads, calls, nLoads>>

\* After the first await: generateAudioFromImage is called, or the promise was
\* rejected (no canvas context) and catch and finally run.
ProcessAfterImageArray(canvasOk) ==
    /\ task # Null
    /\ task[1].kind = "process"
    /\ task[1].stage = "imageArray"
    /\ IF canvasOk
       THEN /\ task' = Some([task[1] EXCEPT !.stage = "audio"])
            /\ UNCHANGED isLoading
       ELSE /\ task' = Null
            /\ isLoading' = SetState(Finally(isLoading), isLoading)
    /\ UNCHANGED <<settings, audioBuffer, imageSrc, mounted, debouncedProcessImageRef,
                   timers, nextTimerId, decoding, fileLoads, calls, starts, nLoads>>

\* After the second await: setAudioBuffer(generatedAudio), then finally.
ProcessAfterAudio ==
    /\ task # Null
    /\ task[1].kind = "process"
    /\ task[1].stage = "audio"
    /\ audioBuffer' = SetState(GeneratedAudio(task[1].img, task[1].settings), audioBuffer)
    /\ isLoading' = SetState(Finally(isLoading), isLoading)
    /\ task' = Null
    /\ UNCHANGED <<settings, imageSrc, mounted, debouncedProcessImageRef, timers,
                   nextTimerId, decoding, fileLoads, calls, starts, nLoads>>

(***************************************************************************)
(* ImageDropzone.processFile and handleImageLoaded.                        *)
(***************************************************************************)
\* processFile(file): the reader's and the image's onload keep the
\* onImageLoaded of this render, whose `settings` are the settings of now.
processFile(img) ==
    /\ Interactive
    /\ nLoads < MaxLoads
    /\ nLoads' = nLoads + 1
    /\ fileLoads' = fileLoads \cup { [id |-> nLoads + 1, img |-> img, settings |-> settings] }
    /\ UNCHANGED <<settings, audioBuffer, isLoading, imageSrc, mounted,
                   debouncedProcessImageRef, timers, nextTimerId, decoding, task,
                   calls, starts>>

\* img.onload: handleImageLoaded runs up to `await imageToGrayscaleArray(...)`.
handleImageLoaded(f) ==
    /\ Idle
    /\ f \in fileLoads
    /\ fileLoads' = fileLoads \ {f}
    /\ isLoading' = SetState(TRUE, isLoading)
    /\ imageSrc' = SetState(f.img, imageSrc)
    /\ task' = Some([kind |-> "load", stage |-> "imageArray",
                     settings |-> f.settings, img |-> f.img, final |-> f.settings])
    /\ UNCHANGED <<settings, audioBuffer, mounted, debouncedProcessImageRef, timers,
                   nextTimerId, decoding, calls, starts, nLoads>>

\* After the first await: analyzeImageForAudioSettings is called, or catch and
\* finally run.
LoadAfterImageArray(canvasOk) ==
    /\ task # Null
    /\ task[1].kind = "load"
    /\ task[1].stage = "imageArray"
    /\ IF canvasOk
       THEN /\ task' = Some([task[1] EXCEPT !.stage = "analyze"])
            /\ UNCHANGED isLoading
       ELSE /\ task' = Null
            /\ isLoading' = SetState(Finally(isLoading), isLoading)
    /\ UNCHANGED <<settings, audioBuffer, imageSrc, mounted, debouncedProcessImageRef,
                   timers, nextTimerId, decoding, fileLoads, calls, starts, nLoads>>

\* After the second await: finalSettings = { ...settings, ...newSettings },
\* setSettings(finalSettings), generateAudioFromImage is called.
LoadAfterAnalyze ==
    /\ task # Null
    /\ task[1].kind = "load"
    /\ task[1].stage = "analyze"
    /\ LET newSettings == AdvisedPatch[task[1].img]
           finalSettings == MergePatch(task[1].settings, newSettings)
       IN  /\ settings' = SetState(finalSettings, settings)
           /\ task' = Some([task[1] EXCEPT !.stage = "audio", !.final = finalSettings])
    /\ UNCHANGED <<audioBuffer, isLoading, imageSrc, mounted, debouncedProcessImageRef,
                   timers, nextTimerId, decoding, fileLoads, calls, starts, nLoads>>

\* After the third await: setAudioBuffer(generatedAudio), then finally.
LoadAfterAudio ==
    /\ task # Null
    /\ task[1].kind = "load"
    /\ task[1].stage = "audio"
    /\ audioBuffer' = SetState(GeneratedAudio(task[1].img, task[1].final), audioBuffer)
    /\ isLoading' = SetState(Finally(isLoading), isLoading)
    /\ task' = Null
    /\ UNCHANGED <<settings, imageSrc, mounted, debouncedProcessImageRef, timers,
                   nextTimerId, decoding, fileLoads, calls, starts, nLoads>>

(***************************************************************************)
(* Unmount (the cleanup of the effect) and the clock.                      *)
(***************************************************************************)
Unmount ==
    /\ mounted
    /\ Idle
    /\ mounted' = FALSE
    /\ timers' = IF debouncedProcessImageRef # 0
                 THEN ClearTimeout(timers, debouncedProcessImageRef)
                 ELSE timers
    /\ UNCHANGED <<settings, audioBuffer, isLoading, imageSrc, debouncedProcessImageRef,
                   nextTimerId, decoding, fileLoads, task, calls, starts, nLoads>>

\* TickMs pass.  The delay left of each timeout shrinks; the age of a call is
\* counted up to DebounceMs, beyond which its value decides nothing.
Tick ==
    /\ Idle
    /\ NoDueTimer
    /\ timers' = { [t EXCEPT !.remaining = Max(0, @ - TickMs)] : t \in timers }
    /\ calls' = [i \in DOMAIN calls |->
                    [calls[i] EXCEPT !.age = Min(DebounceMs, @ + TickMs)]]
    /\ UNCHANGED <<settings, audioBuffer, isLoading, imageSrc, mounted,
                   debouncedProcessImageRef, nextTimerId, decoding, fileLoads,
                   task, starts, nLoads>>

\* The variables outside the component.
AppFrame == UNCHANGED <<synthVars, spectroVars, wavVars, adviceVars, grayVars, playVars>>

\* The steps of the component other than a change of a control.
AppSteps ==
    \/ \E t \in timers : TimerFire(t) /\ AppFrame
    \/ \E d \in decoding : processAndUpdateAudio(d) /\ AppFrame
    \/ \E ok \in BOOLEAN : ProcessAfterImageArray(ok) /\ AppFrame
    \/ ProcessAfterAudio /\ AppFrame
    \/ \E img \in Images : processFile(img) /\ AppFrame
    \/ \E f \in fileLoads : handleImageLoaded(f) /\ AppFrame
    \/ \E ok \in BOOLEAN : LoadAfterImageArray(ok) /\ AppFrame
    \/ LoadAfterAnalyze /\ AppFrame
    \/ LoadAfterAudio /\ AppFrame
    \/ Tick /\ AppFrame

AppNext ==
    \/ \E p \in ControlPanel : handleSettingsChange(p) /\ AppFrame
    \/ AppSteps

(***************************************************************************)
(* A call of generateAudioFromImage on its own.                            *)
(***************************************************************************)
MaxRows == 3         \* rows of a matrix
MaxCols == 2         \* columns of a matrix
MaxCells == 4        \* cells of a matrix

\* The luminance matrices of the model: every matrix within the bounds, the
\* ones of no rows and of rows of no cells included.
Matrices ==
    UNION { [1 .. h -> [1 .. w -> 0 .. AmpScale]] :
            <<h, w>> \in { hw \in (0 .. MaxRows) \X (0 .. MaxCols) : hw[1] * hw[2] <= MaxCells } }

SampleRates == {8}

\* durationPerColumn, as fractions n / d of a second: at 8 samples per
\* second they give 0, 1 and 4 samples per column.
Durations == { [n |-> 1, d |-> 16], [n |-> 1, d |-> 8], [n |-> 1, d |-> 2] }

\* <<minFreq, maxFreq>>.
FreqRanges == { <<1, 3>>, <<2, 2>> }

SynthInputs ==
    [imageArray : Matrices, sampleRate : SampleRates, durationPerColumn : Durations,
     freqRange : FreqRanges, waveShape : WaveShapes]

NoArgs ==
    [imageArray |-> <<>>, sampleRate |-> 8, durationPerColumn |-> [n |-> 1, d |-> 8],
     freqRange |-> <<1, 3>>, waveShape |-> "sin"]

SynthIdle == synthArgs = NoArgs /\ synthResult = Null

SynthInit ==
    /\ synthArgs \in SynthInputs
    /\ synthResult = Null

GenerateAudio ==
    /\ synthResult = Null
    /\ synthResult' = Some(generateAudioFromImage(
                           synthArgs.imageArray, synthArgs.sampleRate,
                           synthArgs.durationPerColumn, synthArgs.freqRange[1],
                           synthArgs.freqRange[2], synthArgs.waveShape))
    /\ UNCHANGED synthArgs

(***************************************************************************)
(* computeSpectrogramData.  A sample is an integer, a window coefficient    *)
(* and a complex component are counts of 1 / WaveScale, and a magnitude in *)
(* dB is an integer of the 3 dB grid (Decibels); the roundings of a Float32 *)
(* and of a double are not modelled.                                       *)
(***************************************************************************)
PlaybackRate == 44100

\* cos and sin of -2 * pi * k / N, for N a divisor of PhaseRes.
TwiddleIndex(k, N) == (-(k * (PhaseRes \div N))) % PhaseRes
Cos(k, N) == SinTable[((TwiddleIndex(k, N) + PhaseRes \div 4) % PhaseRes) + 1]
Sin(k, N) == SinTable[TwiddleIndex(k, N) + 1]

\* A product of two counts of 1 / WaveScale, to the nearest count.
FxTimes(a, b) == (a * b + WaveScale \div 2) \div WaveScale

\* t = (cos + i sin)(angle) * odd[k].
Twiddled(k, N, o) ==
    [re |-> FxTimes(Cos(k, N), o.re) - FxTimes(Sin(k, N), o.im),
     im |-> FxTimes(Cos(k, N), o.im) + FxTimes(Sin(k, N), o.re)]

RECURSIVE fft_radix2(_)
fft_radix2(x) ==
    LET N == Len(x)
        half == N \div 2
    IN  IF N <= 1 THEN x
        ELSE LET even == fft_radix2([i \in 1 .. half |-> x[2 * i - 1]])
                 odd == fft_radix2([i \in 1 .. half |-> x[2 * i]])
             IN  [j \in 1 .. N |->
                     IF j <= half
                     THEN LET t == Twiddled(j - 1, N, odd[j])
                          IN  [re |-> even[j].re + t.re, im |-> even[j].im + t.im]
                     ELSE LET t == Twiddled(j - 1 - half, N, odd[j - half])
                          IN  [re |-> even[j - half].re - t.re,
                               im |-> even[j - half].im - t.im]]

\* The Hann window 0.5 * (1 - cos(2 * pi * i / (fftSize - 1))), i = 0 ..
\* fftSize - 1, in counts of 1 / WaveScale; for fftSize 1 the one coefficient
\* is 0.5 * (1 - cos(0 / 0)), NaN.
HannWindow(fftSize) ==
    IF fftSize = 1 THEN <<NaN>>
    ELSE IF fftSize = 2 THEN <<0, 0>>
    ELSE IF fftSize = 4 THEN <<0, 750, 750, 0>>
    ELSE <<0, 188, 611, 950, 950, 611, 188, 0>>

\* windowedFrame[j] = { re: frame[j] * window[j], im: 0 }.
WindowedFrame(frame, fftSize) ==
    [j \in 1 .. fftSize |->
        [re |-> IF fftSize = 1 THEN NaN ELSE frame[j] * HannWindow(fftSize)[j],
         im |-> 0]]

RECURSIVE ILog2(_)
ILog2(n) == IF n <= 1 THEN 0 ELSE 1 + ILog2(n \div 2)

\* 20 * log10(mag + 1e-10) for mag = sqrt(power) / WaveScale: -200 for the
\* magnitude 0, else the step of the 3 dB grid at or below 10 * log10(power) - 60.
Decibels(power) == IF power = 0 THEN -200 ELSE 3 * ILog2(power) - 60

\* fftResult.slice(0, fftSize / 2), as magnitudes in dB.
DbMagnitudes(frame, fftSize) ==
    LET fftResult == fft_radix2(WindowedFrame(frame, fftSize))
    IN  [k \in 1 .. (fftSize \div 2) |->
            Decibels(fftResult[k].re * fftResult[k].re + fftResult[k].im * fftResult[k].im)]

\* hopLength = Math.floor(fftSize / 4).
HopLength(fftSize) == fftSize \div 4

\* numFrames = Math.floor((audioBuffer.length - fftSize) / hopLength) + 1.
NumFrames(length, fftSize) ==
    JsPlus(JsFloor(JsDiv(length - fftSize, HopLength(fftSize))), Num(1, 1))

\* audioBuffer.slice(start, end).
Slice(a, start, end) == SubSeq(a, start + 1, Min(end, Len(a)))

\* spectrogram[0] ? spectrogram[0].map((_, colIndex) =>
\*     spectrogram.map(row => row[colIndex])) : [].
Transposed(frames) ==
    IF Len(frames) = 0 THEN <<>>
    ELSE [colIndex \in 1 .. Len(frames[1]) |->
             [row \in 1 .. Len(frames) |-> frames[row][colIndex]]]

\* Faulty variant: the rows are kept in the order of the bins.
ReverseSkipped(a) == a

\* a.reverse().
Reverse(a) == [r \in 1 .. Len(a) |-> a[Len(a) + 1 - r]]

\* Array.from({length: fftSize / 2}, (_, i) => i * 44100 / fftSize).
BinFrequencies(fftSize) ==
    [k \in 1 .. (fftSize \div 2) |-> JsDiv((k - 1) * PlaybackRate, fftSize)]

MaxSignalLen == 9    \* samples of a signal
MaxFrames == 6       \* iterations of the frame loop that are followed

SampleValues == {-1, 0, 1}
SignalPeriod == 3

\* The signals of the model: the periodic ones of each length within the bound.
Signals ==
    { [i \in 1 .. len |-> p[((i - 1) % SignalPeriod) + 1]] :
          <<len, p>> \in (0 .. MaxSignalLen) \X [1 .. SignalPeriod -> SampleValues] }

FftSizes == {1, 2, 4, 8}

SpectroInputs == [audioBuffer : Signals, fftSize : FftSizes]

SpectroStart ==
    /\ frameIndex = 0
    /\ spectrogram = <<>>
    /\ times = <<>>
    /\ spectroResult = Null

SpectroIdle == spectroArgs = [audioBuffer |-> <<>>, fftSize |-> 4] /\ SpectroStart

SpectroInit == spectroArgs \in SpectroInputs /\ SpectroStart

\* i < numFrames.
InFrameLoop ==
    JsGreater(NumFrames(Len(spectroArgs.audioBuffer), spectroArgs.fftSize),
              Num(frameIndex, 1))

\* One iteration of the frame loop.
FrameStep ==
    /\ spectroResult = Null
    /\ frameIndex < MaxFrames
    /\ InFrameLoop
    /\ LET fftSize == spectroArgs.fftSize
           start == frameIndex * HopLength(fftSize)
           frame == Slice(spectroArgs.audioBuffer, start, start + fftSize)
       IN  IF Len(frame) < fftSize
           THEN UNCHANGED <<spectrogram, times>>
           ELSE /\ spectrogram' = Append(spectrogram, DbMagnitudes(frame, fftSize))
                /\ times' = Append(times, JsDiv(start, PlaybackRate))
    /\ frameIndex' = frameIndex + 1
    /\ UNCHANGED <<spectroArgs, spectroResult>>

\* The statements after the frame loop, and the return.
ReturnSpectrogram ==
    /\ spectroResult = Null
    /\ ~InFrameLoop
    /\ spectroResult' = Some([data |-> Reverse(Transposed(spectrogram)),
                              freqs |-> BinFrequencies(spectroArgs.fftSize),
                              times |-> times])
    /\ UNCHANGED <<spectroArgs, frameIndex, spectrogram, times>>

(***************************************************************************)
(* encodeWAV.  The Blob is the sequence of the bytes of its ArrayBuffer; a  *)
(* sample is a JS number n / d, NaN or an infinity.  The sample rates of   *)
(* the model are integers below 2^31, which ToUint32 leaves unchanged.     *)
(***************************************************************************)
\* The integer part of a number, as ToInt16 and ToUint32 take it.
Truncate(x) == Sign(x.n) * (Abs(x.n) \div x.d)

\* view.setUint8(offset + i, str.charCodeAt(i)), for each i.
WriteString(str) ==
    IF str = "RIFF" THEN <<82, 73, 70, 70>>
    ELSE IF str = "WAVE" THEN <<87, 65, 86, 69>>
    ELSE IF str = "fmt " THEN <<102, 109, 116, 32>>
    ELSE <<100, 97, 116, 97>>

\* view.setUint32(offset, value, true).
SetUint32(value) ==
    <<value % 256, (value \div 256) % 256, (value \div 65536) % 256,
      (value \div 16777216) % 256>>

\* view.setUint16(offset, value, true).
SetUint16(value) == <<(value % 65536) % 256, (value % 65536) \div 256>>

\* output.setInt16(offset, value, true): ToInt16 of the number (0 for NaN and
\* the infinities, else its integer part modulo 2^16), low byte first.
SetInt16(value) ==
    IF IsFinite(value) THEN SetUint16(Truncate(value) % 65536) ELSE <<0, 0>>

\* Faulty variant: the sample is not clamped.
ClampSkipped(x) == x

\* Math.max(-1, Math.min(1, input[i])).
Clamp(x) ==
    IF IsNaN(x) THEN NaN
    ELSE IF JsGreater(x, Num(1, 1)) THEN Num(1, 1)
    ELSE IF JsGreater(Num(-1, 1), x) THEN Num(-1, 1)
    ELSE x

\* Faulty variant: both signs are scaled by 0x8000.
ScaledTo16BitSymmetric(s) == JsTimes(s, 32768)

\* s < 0 ? s * 0x8000 : s * 0x7FFF.
ScaledTo16Bit(s) ==
    IF JsGreater(Num(0, 1), s) THEN JsTimes(s, 32768) ELSE JsTimes(s, 32767)

\* floatTo16BitPCM(view, 44, samples).
RECURSIVE floatTo16BitPCM(_)
floatTo16BitPCM(input) ==
    IF Len(input) = 0 THEN <<>>
    ELSE SetInt16(ScaledTo16Bit(Clamp(Head(input)))) \o floatTo16BitPCM(Tail(input))

\* Faulty variant: the size of the whole file is written.
ChunkSizeOfFile(length) == 44 + length * 2

\* 36 + samples.length * 2.
ChunkSize(length) == 36 + length * 2

encodeWAV(samples, sampleRate) ==
    WriteString("RIFF") \o SetUint32(ChunkSize(Len(samples))) \o WriteString("WAVE")
    \o WriteString("fmt ") \o SetUint32(16) \o SetUint16(1) \o SetUint16(1)
    \o SetUint32(sampleRate) \o SetUint32(sampleRate * 2) \o SetUint16(2)
    \o SetUint16(16) \o WriteString("data") \o SetUint32(Len(samples) * 2)
    \o floatTo16BitPCM(samples)

\* The little-endian fields of a byte sequence, offsets from 0.
Uint16At(bytes, offset) == bytes[offset + 1] + 256 * bytes[offset + 2]
Uint32At(bytes, offset) ==
    bytes[offset + 1] + 256 * bytes[offset + 2] + 65536 * bytes[offset + 3]
    + 16777216 * bytes[offset + 4]
Int16At(bytes, offset) ==
    IF Uint16At(bytes, offset) >= 32768
    THEN Uint16At(bytes, offset) - 65536
    ELSE Uint16At(bytes, offset)

\* The decoder the product does not have: the layout parsed back, a sample
\* reconstructed as int16 / 32768 (negative) or int16 / 32767, the scaling of
\* the encoder.
decodeWAV(bytes) ==
    [sampleRate |-> Uint32At(bytes, 24),
     signal |-> [i \in 1 .. (Uint32At(bytes, 40) \div 2) |->
                    LET v == Int16At(bytes, 44 + 2 * (i - 1))
                    IN  IF v < 0 THEN Num(v, 32768) ELSE Num(v, 32767)]]

MaxWavSamples == 2   \* samples of a signal to encode

\* The samples of the model: in and out of [-1, 1], on a grid of quarters and
\* just above 1 / 32768 (2 / 65535), NaN and the infinities.
WavSampleValues ==
    { Num(n, 4) : n \in {-6, -4, -3, -1, 0, 1, 3, 4, 6} }
    \cup { Num(2, 65535), Num(-2, 65535), NaN, Infinity(1), Infinity(-1) }

WavSignals == UNION { [1 .. len -> WavSampleValues] : len \in 0 .. MaxWavSamples }

WavSampleRates == {8000, 44100}

WavInputs == [samples : WavSignals, sampleRate : WavSampleRates]

WavIdle == wavArgs = [samples |-> <<>>, sampleRate |-> 44100] /\ wavResult = Null

WavInit == wavArgs \in WavInputs /\ wavResult = Null

EncodeWAV ==
    /\ wavResult = Null
    /\ wavResult' = Some(encodeWAV(wavArgs.samples, wavArgs.sampleRate))
    /\ UNCHANGED wavArgs

(***************************************************************************)
(* analyzeImageForAudioSettings on a matrix of numbers, and the merge of   *)
(* its patch by handleImageLoaded.  A cell is c / AmpScale or NaN.          *)
(***************************************************************************)
HasNaNCell(m) == \E r \in DOMAIN m : \E c \in DOMAIN m[r] : IsNaN(m[r][c])

\* The cells of a matrix of numbers, as counts of 1 / AmpScale.
CellCounts(m) == [r \in DOMAIN m |-> [c \in DOMAIN m[r] |-> m[r][c].n]]

\* The patch for a matrix of numbers; `nan` says that duration, minFreq and
\* maxFreq are NaN.  With a NaN cell the sum, the mean, the variance and the
\* contrast are NaN, Math.max(20, NaN) and Math.min(20000, NaN) are NaN,
\* NaN.toFixed(...) is "NaN", and parseFloat and parseInt of it are NaN.
AdvisorPatch(m) ==
    IF Len(m) = 0 \/ Len(m[1]) = 0
    THEN [nan |-> FALSE] @@ EmptyPatch
    ELSE IF HasNaNCell(m)
    THEN [nan |-> TRUE, set |-> TRUE, duration |-> 0, minFreq |-> 0, maxFreq |-> 0]
    ELSE [nan |-> FALSE] @@ analyzeImageForAudioSettings(CellCounts(m))

\* The cells of the model: 0, 0.5, 1 and NaN.
AdviceCells == { Num(c, AmpScale) : c \in 0 .. AmpScale } \cup {NaN}

AdviceMatrices ==
    UNION { [1 .. h -> [1 .. w -> AdviceCells]] :
            <<h, w>> \in { hw \in (0 .. MaxRows) \X (0 .. MaxCols) : hw[1] * hw[2] <= MaxCells } }

\* The settings before the load: the initial ones, and ones the sliders gave.
PriorSettings ==
    { InitialSettings,
      [InitialSettings EXCEPT !.duration = 10, !.minFreq = 1000, !.maxFreq = 1000] }

AdviceInputs == [imageArray : AdviceMatrices, settings : PriorSettings]

AdviceStart == adviceResult = Null /\ mergedSettings = Null

AdviceIdle == adviceArgs = [imageArray |-> <<>>, settings |-> InitialSettings] /\ AdviceStart

AdviceInit == adviceArgs \in AdviceInputs /\ AdviceStart

\* const { newSettings } = await analyzeImageForAudioSettings(imageArray).
AnalyzeImage ==
    /\ adviceResult = Null
    /\ adviceResult' = Some(AdvisorPatch(adviceArgs.imageArray))
    /\ UNCHANGED <<adviceArgs, mergedSettings>>

\* const finalSettings = { ...settings, ...newSettings }.
MergeAdvice ==
    /\ adviceResult # Null
    /\ mergedSettings = Null
    /\ mergedSettings' =
           Some(IF adviceResult[1].nan
                THEN [adviceArgs.settings EXCEPT !.duration = NaN, !.minFreq = NaN,
                                                 !.maxFreq = NaN]
                ELSE MergePatch(adviceArgs.settings, adviceResult[1]))
    /\ UNCHANGED <<adviceArgs, adviceResult>>

(***************************************************************************)
(* imageToGrayscaleArray on the pixels the canvas hands back.  `data` is   *)
(* the Uint8ClampedArray of getImageData for the image drawn at width x    *)
(* height (four bytes a pixel); the browser's resampling is not modelled.  *)
(***************************************************************************)
MaxImageWidth == 2
MaxImageHeight == 2

\* 1.0 - (0.299 * r + 0.587 * g + 0.114 * b) / 255.0 (the sum in thousandths).
Grayscale(r, g, b) ==
    JsMinus(1, JsOver(Num(299 * r + 587 * g + 114 * b, 1000), Num(255, 1)))

GrayResolved(grayscaleArray) == [status |-> "resolved", matrix |-> grayscaleArray]

\* The executor threw: the promise is rejected with the error.
GrayRejected(error) == [status |-> "rejected", matrix |-> <<>>, error |-> error]

\* ctx says whether canvas.getContext('2d') gave a context.  getImageData
\* throws an IndexSizeError when its width or height argument is zero.
imageToGrayscaleArray(ctx, data, width, height) ==
    IF ~ctx THEN GrayRejected("Could not get canvas context")
    ELSE IF width = 0 \/ height = 0 THEN GrayRejected("IndexSizeError")
    ELSE GrayResolved(
             [y \in 1 .. height |->
                 [x \in 1 .. width |->
                     LET i == ((y - 1) * width + (x - 1)) * 4
                     IN  Grayscale(data[i + 1], data[i + 2], data[i + 3])]])

\* The pixels of the model: black, white and a colour of three different
\* channels, all opaque.
Pixels == { <<0, 0, 0, 255>>, <<255, 255, 255, 255>>, <<12, 200, 77, 255>> }

\* The bytes of a sequence of pixels.
PixelBytes(px) == [i \in 1 .. 4 * Len(px) |-> px[((i - 1) \div 4) + 1][((i - 1) % 4) + 1]]

GrayInputs ==
    UNION { [ctx : BOOLEAN, width : {w}, height : {h},
             data : { PixelBytes(px) : px \in [1 .. w * h -> Pixels] }] :
            <<w, h>> \in (0 .. MaxImageWidth) \X (0 .. MaxImageHeight) }

GrayIdle ==
    /\ grayArgs = [ctx |-> TRUE, width |-> 0, height |-> 0, data |-> <<>>]
    /\ grayResult = Null

GrayInit == grayArgs \in GrayInputs /\ grayResult = Null

\* await imageToGrayscaleArray(image, width, height).
ImageToGrayscale ==
    /\ grayResult = Null
    /\ grayResult' = Some(imageToGrayscaleArray(grayArgs.ctx, grayArgs.data,
                                                grayArgs.width, grayArgs.height))
    /\ UNCHANGED grayArgs

(***************************************************************************)
(* Playback: handlePlay, handlePause and the source's onended.  A source   *)
(* is "playing" from start(), "finished" once stop() was called or its     *)
(* buffer ran out (its ended event is queued), and "ended" once its        *)
(* onended callback has run.                                               *)
(***************************************************************************)
MaxPlays == 3        \* calls of handlePlay in one behaviour

PlayIdle ==
    /\ isPlaying = FALSE
    /\ audioSourceRef = 0
    /\ sources = <<>>
    /\ plays = 0

\* Faulty variant: only the missing buffer stops handlePlay.
PlayRefusedUnlessBuffer(buffer, playing) == buffer = Null

\* if (!audioBuffer || isPlaying) return.
PlayRefused(buffer, playing) == buffer = Null \/ playing

\* handlePlay: source.start(), setIsPlaying(true), source.onended = ...,
\* audioSourceRef.current = source.
handlePlay ==
    /\ mounted
    /\ Idle
    /\ plays < MaxPlays
    /\ plays' = plays + 1
    /\ IF PlayRefused(audioBuffer, isPlaying)
       THEN UNCHANGED <<isPlaying, audioSourceRef, sources>>
       ELSE /\ sources' = Append(sources, "playing")
            /\ isPlaying' = SetState(TRUE, isPlaying)
            /\ audioSourceRef' = Len(sources) + 1

\* handlePause: audioSourceRef.current.stop(), if there is a source.
handlePause ==
    /\ mounted
    /\ Idle
    /\ audioSourceRef # 0
    /\ sources[audioSourceRef] = "playing"
    /\ sources' = [sources EXCEPT ![audioSourceRef] = "finished"]
    /\ UNCHANGED <<isPlaying, audioSourceRef, plays>>

\* The buffer of source i has been played to its end.
SourceRunsOut(i) ==
    /\ sources[i] = "playing"
    /\ sources' = [sources EXCEPT ![i] = "finished"]
    /\ UNCHANGED <<isPlaying, audioSourceRef, plays>>

\* source.onended of source i: setIsPlaying(false), audioSourceRef.current = null.
onended(i) ==
    /\ Idle
    /\ sources[i] = "finished"
    /\ sources' = [sources EXCEPT ![i] = "ended"]
    /\ isPlaying' = SetState(FALSE, isPlaying)
    /\ audioSourceRef' = 0
    /\ UNCHANGED plays

vars == <<appVars, synthVars, spectroVars, wavVars, adviceVars, grayVars, playVars>>

Init == AppInit /\ SynthIdle /\ SpectroIdle /\ WavIdle /\ AdviceIdle /\ GrayIdle /\ PlayIdle

Next == AppNext

\* The application while it is mounted.
Spec == Init /\ [][Next]_vars

\* The application with its unmount.
LifeNext == AppNext \/ (Unmount /\ AppFrame)

LifeSpec == Init /\ [][LifeNext]_vars

\* The application with the frequency sliders as its controls.
FreqNext ==
    \/ \E p \in FrequencySliders : handleSettingsChange(p) /\ AppFrame
    \/ AppSteps

FreqSpec == Init /\ [][FreqNext]_vars

\* The continuations after an await: microtasks, which run as soon as the
\* running stretch of code ends.
Continuation ==
    \/ \E ok \in BOOLEAN : ProcessAfterImageArray(ok) /\ AppFrame
    \/ ProcessAfterAudio /\ AppFrame
    \/ \E ok \in BOOLEAN : LoadAfterImageArray(ok) /\ AppFrame
    \/ LoadAfterAnalyze /\ AppFrame
    \/ LoadAfterAudio /\ AppFrame

\* The application under the event loop's guarantee that a queued microtask runs.
FairSpec == Init /\ [][Next]_vars /\ WF_vars(Continuation)

\* The frame of a playback step.
PlayFrame == UNCHANGED <<appVars, synthVars, spectroVars, wavVars, adviceVars, grayVars>>

\* The application with its playback controls and the wave shape as its
\* one settings control.
PlayNext ==
    \/ handlePlay /\ PlayFrame
    \/ handlePause /\ PlayFrame
    \/ \E i \in DOMAIN sources : SourceRunsOut(i) /\ PlayFrame
    \/ \E i \in DOMAIN sources : onended(i) /\ PlayFrame
    \/ \E p \in ShapePatches : handleSettingsChange(p) /\ AppFrame
    \/ AppSteps

PlaySpec == Init /\ [][PlayNext]_vars

\* Calls of generateAudioFromImage, over the inputs of the model.
SynthSpecInit == AppInit /\ SynthInit /\ SpectroIdle /\ WavIdle /\ AdviceIdle /\ GrayIdle /\ PlayIdle

SynthNext == GenerateAudio /\ UNCHANGED <<appVars, spectroVars, wavVars, adviceVars, grayVars, playVars>>

SynthSpec == SynthSpecInit /\ [][SynthNext]_vars

\* Calls of computeSpectrogramData, over the inputs of the model.
SpectroSpecInit == AppInit /\ SynthIdle /\ SpectroInit /\ WavIdle /\ AdviceIdle /\ GrayIdle /\ PlayIdle

SpectroNext ==
    \/ FrameStep /\ UNCHANGED <<appVars, synthVars, wavVars, adviceVars, grayVars, playVars>>
    \/ ReturnSpectrogram /\ UNCHANGED <<appVars, synthVars, wavVars, adviceVars, grayVars, playVars>>

SpectroSpec == SpectroSpecInit /\ [][SpectroNext]_vars

\* The call runs on: a statement that can run does run.
SpectroFairSpec == SpectroSpecInit /\ [][SpectroNext]_vars /\ WF_vars(SpectroNext)

\* Calls of encodeWAV, over the inputs of the model.
WavSpecInit == AppInit /\ SynthIdle /\ SpectroIdle /\ WavInit /\ AdviceIdle /\ GrayIdle /\ PlayIdle

WavNext == EncodeWAV /\ UNCHANGED <<appVars, synthVars, spectroVars, adviceVars, grayVars, playVars>>

WavSpec == WavSpecInit /\ [][WavNext]_vars

\* Calls of analyzeImageForAudioSettings and the merge of their patch, over
\* the inputs of the model.
AdviceSpecInit == AppInit /\ SynthIdle /\ SpectroIdle /\ WavIdle /\ AdviceInit /\ GrayIdle /\ PlayIdle

AdviceNext ==
    \/ AnalyzeImage /\ UNCHANGED <<appVars, synthVars, spectroVars, wavVars, grayVars, playVars>>
    \/ MergeAdvice /\ UNCHANGED <<appVars, synthVars, spectroVars, wavVars, grayVars, playVars>>

AdviceSpec == AdviceSpecInit /\ [][AdviceNext]_vars

\* Calls of imageToGrayscaleArray, over the inputs of the model.
GraySpecInit == AppInit /\ SynthIdle /\ SpectroIdle /\ WavIdle /\ AdviceIdle /\ GrayInit /\ PlayIdle

GrayNext ==
    ImageToGrayscale /\ UNCHANGED <<appVars, synthVars, spectroVars, wavVars, adviceVars, playVars>>

GraySpec == GraySpecInit /\ [][GrayNext]_vars

(***************************************************************************)
(* C1.  Stale recomputation results.                                       *)
(***************************************************************************)
\* The input the user submitted last: the image and the settings of the state.
LatestInput == [img |-> imageSrc, settings |-> settings]

\* C1: a recomputation result is committed to audioBuffer only if it was
\* computed from the most recent image and the most recent settings; a result
\* for a superseded input is discarded.
C1_StaleResultNeverCommitted ==
    [][audioBuffer' # audioBuffer => audioBuffer' = Some(LatestInput')]_vars

(***************************************************************************)
(* C2.  Debounce.                                                          *)
(***************************************************************************)
\* Call i is the last call of its burst: no call followed it within DebounceMs.
LastOfBurst(i) == i = Len(calls) \/ calls[i + 1].gap >= DebounceMs

\* Calls i <= j belong to one burst.

\* The recomputations started for the timeout that call i set.
StartsOf(i) == { j \in DOMAIN starts : starts[j].timer = calls[i].timer }

TimerAlive(id) ==
    \/ \E t \in timers : t.id = id
    \/ \E d \in decoding : d.timer = id

Settled == synthResult # Null
Result == synthResult[1]
Height == Len(synthArgs.imageArray)
Width == IF Height = 0 THEN 0 ELSE Len(synthArgs.imageArray[1])
FloorSamples ==
    (synthArgs.sampleRate * synthArgs.durationPerColumn.n) \div synthArgs.durationPerColumn.d

HasNonzeroCell(m) == \E r \in DOMAIN m : \E c \in DOMAIN m[r] : m[r][c] # 0
AllCellsZero(m) == \A r \in DOMAIN m : \A c \in DOMAIN m[r] : m[r][c] = 0

One == Num(1, 1)

\* max(|sample|) = 1.0 over the signal.
PeakIsOne(audio) ==
    /\ \A i \in DOMAIN audio : IsFinite(audio[i]) /\ ~JsGreater(JsAbs(audio[i]), One)
    /\ \E i \in DOMAIN audio : JsEquals(JsAbs(audio[i]), One)

\* C3 as claimed, for the matrices of two rows or more (every row frequency
\* is then a number): for every matrix with at least one nonzero cell the
\* returned signal has maximum absolute sample value 1.0.
C3_PeakIsOneForNonzeroMatrix ==
    (Settled /\ Height > 1 /\ HasNonzeroCell(synthArgs.imageArray)) =>
        (Result.status = "resolved" /\ PeakIsOne(Result.audio))

\* C3 as amended: when some sample is a nonzero number before normalization
\* (the scanned peak maxAmplitude is above 0) the returned signal has maximum
\* absolute sample value 1.0; otherwise the signal is returned as generated and
\* each of its samples is 0 or NaN.
C3_PeakIsOneWhenPeakPositive ==
    (Settled /\ Result.status = "resolved") =>
        IF JsGreater(Result.maxAmplitude, Num(0, 1))
        THEN PeakIsOne(Result.audio)
        ELSE \A i \in DOMAIN Result.audio : IsZero(Result.audio[i]) \/ IsNaN(Result.audio[i])

\* A signal of two rows with a negative sample was normalized to peak 1.
C3_Witness ==
    /\ Settled
    /\ Height = 2
    /\ JsGreater(Result.maxAmplitude, Num(0, 1))
    /\ PeakIsOne(Result.audio)
    /\ \E i \in DOMAIN Result.audio : Result.audio[i].n < 0

\* C4: for a matrix whose cells are all zero every sample of the returned
\* signal is exactly zero: no NaN and no division by the peak 0.
C4_SilentMatrixGivesZeros ==
    (Settled /\ AllCellsZero(synthArgs.imageArray)) =>
        /\ Result.status = "resolved"
        /\ \A i \in DOMAIN Result.audio : IsZero(Result.audio[i])

\* An all-zero matrix of one row gave a signal of several zero samples.
C4_Witness ==
    /\ Settled
    /\ Height = 1
    /\ Width > 0
    /\ AllCellsZero(synthArgs.imageArray)
    /\ Len(Result.audio) > 1
    /\ \A i \in DOMAIN Result.audio : IsZero(Result.audio[i])

\* C5: for a non-empty matrix of width W the returned signal has exactly
\* W * floor(sampleRate * durationPerColumn) samples.
C5_SignalLength ==
    (Settled /\ Height > 0 /\ Width > 0) =>
        /\ Result.status = "resolved"
        /\ Len(Result.audio) = Width * FloorSamples

\* A matrix of two columns gave a signal of eight samples.
C5_Witness ==
    /\ Settled
    /\ Width = 2
    /\ FloorSamples = 4
    /\ Len(Result.audio) = 8

\* C6: for a matrix of one row the row's frequency is maxFreq and no sample
\* of the returned signal is NaN or an infinity.
C6_SingleRowAtMaxFreq ==
    (Settled /\ Height = 1 /\ Width > 0) =>
        /\ Result.status = "resolved"
        /\ \A r \in DOMAIN Result.freqs : JsEquals(Result.freqs[r], Num(synthArgs.freqRange[2], 1))
        /\ \A i \in DOMAIN Result.audio : IsFinite(Result.audio[i])

\* C7: for H > 1 rows, freq(0) = maxFreq and freq(H - 1) = minFreq, and when
\* maxFreq > minFreq the frequencies strictly decrease with the row index.
C7_FrequencyMapping ==
    (Settled /\ Height > 1 /\ Width > 0) =>
        /\ Len(Result.freqs) = Height
        /\ JsEquals(Result.freqs[1], Num(synthArgs.freqRange[2], 1))
        /\ JsEquals(Result.freqs[Height], Num(synthArgs.freqRange[1], 1))
        /\ synthArgs.freqRange[2] > synthArgs.freqRange[1] =>
               \A r \in 1 .. (Height - 1) : JsGreater(Result.freqs[r], Result.freqs[r + 1])

\* The frequencies of a matrix of two rows with maxFreq > minFreq were mapped.
C7_Witness ==
    /\ Settled
    /\ Height = MaxRows
    /\ Height > 1
    /\ synthArgs.freqRange[2] > synthArgs.freqRange[1]
    /\ Len(Result.freqs) = Height

\* C8: for a matrix of no rows or of no columns, and for zero samples per
\* column, the promise resolves with a signal of length 0.
C8_DegenerateInputsGiveEmptySignal ==
    (Settled /\ (Height = 0 \/ Width = 0 \/ FloorSamples = 0)) =>
        /\ Result.status = "resolved"
        /\ Len(Result.audio) = 0

\* The matrix of no rows was given and the promise resolved with no samples.
C8_Witness ==
    /\ Settled
    /\ Height = 0
    /\ Result.status = "resolved"
    /\ Len(Result.audio) = 0

(***************************************************************************)
(* C9, C10.  computeSpectrogramData.                                       *)
(***************************************************************************)
Returned == spectroResult # Null
Spectro == spectroResult[1]
SignalLength == Len(spectroArgs.audioBuffer)
FftSize == spectroArgs.fftSize

\* floor((L - F) / (F / 4)) + 1, for the real number F / 4.
ClaimedFrames == (4 * (SignalLength - FftSize)) \div FftSize + 1

\* C9: for a signal of length L and a power-of-two fftSize F, the call returns
\* exactly floor((L - F) / (F / 4)) + 1 frames and as many time labels when
\* L >= F, and no frame and an empty data matrix when L < F.
C9_FrameCount ==
    Returned =>
        IF SignalLength >= FftSize
        THEN /\ Len(Spectro.times) = ClaimedFrames
             /\ \A r \in DOMAIN Spectro.data : Len(Spectro.data[r]) = ClaimedFrames
        ELSE /\ Len(Spectro.times) = 0
             /\ Spectro.data = <<>>

\* The frame the loop takes at its iteration i (from 0).
FrameAt(i) ==
    Slice(spectroArgs.audioBuffer, i * HopLength(FftSize), i * HopLength(FftSize) + FftSize)

\* C10: when at least one frame exists, the returned matrix has fftSize / 2
\* rows, each of numFrames entries, and row r, column i (both from 0) holds the
\* dB magnitude of the bin fftSize / 2 - 1 - r of frame i: the first row is the
\* highest bin, the last row is bin 0.
C10_RowsAreBinsHighestFirst ==
    (Returned /\ Len(spectrogram) >= 1) =>
        LET bins == FftSize \div 2
            numFrames == NumFrames(SignalLength, FftSize)
        IN  /\ Len(Spectro.data) = bins
            /\ JsEquals(numFrames, Num(Len(spectrogram), 1))
            /\ \A r \in 0 .. (bins - 1) :
                   /\ JsEquals(numFrames, Num(Len(Spectro.data[r + 1]), 1))
                   /\ \A i \in 0 .. (Len(spectrogram) - 1) :
                          Spectro.data[r + 1][i + 1] =
                              DbMagnitudes(FrameAt(i), FftSize)[(bins - 1 - r) + 1]

\* A matrix of several frames was returned whose first and last rows differ.
C10_Witness ==
    /\ Returned
    /\ Len(spectrogram) >= 2
    /\ Len(Spectro.data) = FftSize \div 2
    /\ Spectro.data[1] # Spectro.data[Len(Spectro.data)]

(***************************************************************************)
(* C11 .. C13.  encodeWAV.                                                 *)
(***************************************************************************)
Encoded == wavResult # Null
WavBytes == wavResult[1]
WavLength == Len(wavArgs.samples)

\* C11: the call produces exactly 44 + 2N bytes whose header holds 'RIFF',
\* ChunkSize = 36 + 2N, 'WAVE', 'fmt ', Subchunk1Size = 16, AudioFormat = 1,
\* NumChannels = 1, SampleRate = sampleRate, ByteRate = 2 * sampleRate,
\* BlockAlign = 2, BitsPerSample = 16, 'data' and Subchunk2Size = 2N,
\* little-endian at the offsets 0, 4, 8, 12, 16, 20, 22, 24, 28, 32, 34, 36, 40.
C11_WavHeader ==
    Encoded =>
        /\ Len(WavBytes) = 44 + 2 * WavLength
        /\ \A i \in DOMAIN WavBytes : WavBytes[i] \in 0 .. 255
        /\ SubSeq(WavBytes, 1, 4) = <<82, 73, 70, 70>>
        /\ Uint32At(WavBytes, 4) = 36 + 2 * WavLength
        /\ SubSeq(WavBytes, 9, 12) = <<87, 65, 86, 69>>
        /\ SubSeq(WavBytes, 13, 16) = <<102, 109, 116, 32>>
        /\ Uint32At(WavBytes, 16) = 16
        /\ Uint16At(WavBytes, 20) = 1
        /\ Uint16At(WavBytes, 22) = 1
        /\ Uint32At(WavBytes, 24) = wavArgs.sampleRate
        /\ Uint32At(WavBytes, 28) = 2 * wavArgs.sampleRate
        /\ Uint16At(WavBytes, 32) = 2
        /\ Uint16At(WavBytes, 34) = 16
        /\ SubSeq(WavBytes, 37, 40) = <<100, 97, 116, 97>>
        /\ Uint32At(WavBytes, 40) = 2 * WavLength

\* A signal of two samples was encoded at 44100 Hz into 48 bytes.
C11_Witness ==
    /\ Encoded
    /\ WavLength = 2
    /\ wavArgs.sampleRate = 44100
    /\ Len(WavBytes) = 48

\* The int16 stored for the sample i (from 1).
StoredAt(i) == Int16At(WavBytes, 44 + 2 * (i - 1))

AtLeastOne(x) == JsGreater(x, Num(1, 1)) \/ JsEquals(x, Num(1, 1))
AtMostMinusOne(x) == JsGreater(Num(-1, 1), x) \/ JsEquals(x, Num(-1, 1))

\* C12: every stored int16 lies in [-32768, 32767]; a sample >= 1.0 is stored
\* as 32767, a sample <= -1.0 as -32768, and any other number s as s * 32768
\* (s < 0) or s * 32767 (s >= 0) truncated toward zero.
C12_ClampedQuantization ==
    Encoded =>
        \A i \in DOMAIN wavArgs.samples :
            LET x == wavArgs.samples[i]
            IN  /\ StoredAt(i) \in -32768 .. 32767
                /\ AtLeastOne(x) => StoredAt(i) = 32767
                /\ AtMostMinusOne(x) => StoredAt(i) = -32768
                /\ (IsFinite(x) /\ ~AtLeastOne(x) /\ ~AtMostMinusOne(x)) =>
                       StoredAt(i) = IF x.n < 0 THEN -(((-x.n) * 32768) \div x.d)
                                     ELSE (x.n * 32767) \div x.d

\* A sample above 1, a sample below -1 and a fraction were encoded.
C12_Witness ==
    /\ Encoded
    /\ \E i, j \in DOMAIN wavArgs.samples :
           /\ wavArgs.samples[i] = Num(6, 4)
           /\ wavArgs.samples[j] = Num(-6, 4)
           /\ StoredAt(i) = 32767
           /\ StoredAt(j) = -32768

InUnitRange(x) == IsFinite(x) /\ Abs(x.n) <= x.d

\* |v / scale - x| <= 1 / step, and the same with <, for the number x.
DiffersAtMost(v, scale, x, step) ==
    Abs(v * x.d - x.n * scale) <= (scale * x.d) \div step
DiffersLess(v, scale, x, step) ==
    Abs(v * x.d - x.n * scale) <= (scale * x.d - 1) \div step

\* C13 as claimed, for the signals whose samples are numbers of [-1, 1]:
\* decoding the bytes yields the same sampleRate and a signal of the same
\* length in which every sample differs from the original by at most 1 / 32768.
C13_RoundTripWithinOneStep ==
    (Encoded /\ \A i \in DOMAIN wavArgs.samples : InUnitRange(wavArgs.samples[i])) =>
        LET decoded == decodeWAV(WavBytes)
        IN  /\ decoded.sampleRate = wavArgs.sampleRate
            /\ Len(decoded.signal) = WavLength
            /\ \A i \in DOMAIN wavArgs.samples :
                   DiffersAtMost(decoded.signal[i].n, decoded.signal[i].d,
                                 wavArgs.samples[i], 32768)

\* C13 as amended: for the signals whose samples are numbers of [-1, 1],
\* decoding the bytes yields the same sampleRate and a signal of the same
\* length in which every sample differs from the original by less than
\* 1 / 32767, the step of the scale of the non-negative samples.
C13_RoundTripWithinPositiveStep ==
    (Encoded /\ \A i \in DOMAIN wavArgs.samples : InUnitRange(wavArgs.samples[i])) =>
        LET decoded == decodeWAV(WavBytes)
        IN  /\ decoded.sampleRate = wavArgs.sampleRate
            /\ Len(decoded.signal) = WavLength
            /\ \A i \in DOMAIN wavArgs.samples :
                   DiffersLess(decoded.signal[i].n, decoded.signal[i].d,
                               wavArgs.samples[i], 32767)

\* A signal of a positive and a negative fraction was encoded and decoded.
C13_Witness ==
    /\ Encoded
    /\ wavArgs.samples = <<Num(3, 4), Num(-1, 4)>>
    /\ decodeWAV(WavBytes).signal = <<Num(24575, 32767), Num(-8192, 32768)>>

(***************************************************************************)
(* C14, C15, C19.  analyzeImageForAudioSettings.                           *)
(***************************************************************************)
Advised == adviceResult # Null
Patch == adviceResult[1]
NonEmptyMatrix(m) == Len(m) > 0 /\ Len(m[1]) > 0
AllCellsHalf(m) ==
    \A r \in DOMAIN m : \A c \in DOMAIN m[r] : JsEquals(m[r][c], Num(1, 2))

\* C14 as claimed: for a matrix whose cells all equal 0.5 the patch is exactly
\* duration = 7.5, minFreq = 400 and maxFreq = 6400.
C14_UniformHalfGives6400 ==
    (Advised /\ NonEmptyMatrix(adviceArgs.imageArray) /\ AllCellsHalf(adviceArgs.imageArray)) =>
        /\ Patch.set /\ ~Patch.nan
        /\ Patch.duration = 75
        /\ Patch.minFreq = 400
        /\ Patch.maxFreq = 6400

\* C14 as amended: for a matrix whose cells all equal 0.5 the patch is exactly
\* duration = 7.5, minFreq = 400 and maxFreq = 2400 (400 + 2000).
C14_UniformHalfGives2400 ==
    (Advised /\ NonEmptyMatrix(adviceArgs.imageArray) /\ AllCellsHalf(adviceArgs.imageArray)) =>
        /\ Patch.set /\ ~Patch.nan
        /\ Patch.duration = 75
        /\ Patch.minFreq = 400
        /\ Patch.maxFreq = 2400

\* The advisor was given a 2 x 2 matrix of cells 0.5.
C14_Witness ==
    /\ Advised
    /\ adviceArgs.imageArray = << <<Num(1, 2), Num(1, 2)>>, <<Num(1, 2), Num(1, 2)>> >>
    /\ Patch.set

C19_NaNGivesEmptyPatch ==
    (NonEmptyMatrix(adviceArgs.imageArray) /\ HasNaNCell(adviceArgs.imageArray)) =>
        /\ Advised => (~Patch.set /\ ~Patch.nan)
        /\ mergedSettings # Null => mergedSettings[1] = adviceArgs.settings

(***************************************************************************)
(* C16.  The frequency pair of the settings.                               *)
(***************************************************************************)
Nyquist == AppSampleRate \div 2

ValidFrequencyPair(s) ==
    /\ s.minFreq <= s.maxFreq
    /\ s.minFreq >= 0 /\ s.minFreq < Nyquist
    /\ s.maxFreq >= 0 /\ s.maxFreq < Nyquist

\* C16: in every reachable state the settings satisfy minFreq <= maxFreq with
\* both below the Nyquist frequency 22050 Hz, and so do the settings every
\* call of generateAudioFromImage is given.
C16_FrequencyPairValid ==
    /\ ValidFrequencyPair(settings)
    /\ (task # Null /\ task[1].stage = "audio") =>
           ValidFrequencyPair(IF task[1].kind = "load" THEN task[1].final
                              ELSE task[1].settings)

\* generateAudioFromImage was called with both sliders at 1000 Hz.
C16_Witness ==
    /\ task # Null
    /\ task[1].stage = "audio"
    /\ task[1].kind = "process"
    /\ task[1].settings.minFreq = 1000
    /\ task[1].settings.maxFreq = 1000
    /\ settings.minFreq = settings.maxFreq

(***************************************************************************)
(* C17.  The luminance matrix.                                             *)
(***************************************************************************)
\* The call has returned and the canvas gave a context.
Converted == grayResult # Null /\ grayArgs.ctx

\* The matrix has height rows of width cells, each the inverted luminance of
\* its pixel, within [0, 1], 1 for black and 0 for white.
IsLuminanceMatrix(m, a) ==
    /\ Len(m) = a.height
    /\ \A y \in 1 .. Len(m) :
          /\ Len(m[y]) = a.width
          /\ \A x \in 1 .. Len(m[y]) :
                LET i == ((y - 1) * a.width + (x - 1)) * 4
                    R == a.data[i + 1]
                    G == a.data[i + 2]
                    B == a.data[i + 3]
                    cell == m[y][x]
                IN  /\ IsFinite(cell)
                    \* cell = (255000 - (299 R + 587 G + 114 B)) / 255000
                    /\ cell.d % 1000 = 0
                    /\ cell.n * 255 = (cell.d \div 1000) * (255000 - (299 * R + 587 * G + 114 * B))
                    /\ cell.n >= 0 /\ cell.n <= cell.d
                    /\ (R = 0 /\ G = 0 /\ B = 0) => cell.n = cell.d
                    /\ (R = 255 /\ G = 255 /\ B = 255) => cell.n = 0

EmptyMatrix(m) == \A y \in 1 .. Len(m) : Len(m[y]) = 0

\* C17: imageToGrayscaleArray yields a matrix of height rows of width cells,
\* every cell 1 - (0.299 R + 0.587 G + 0.114 B) / 255 and within [0, 1]; a
\* width or height of 0 yields an empty matrix and not an error.
C17_LuminanceMatrix ==
    Converted =>
        /\ grayResult[1].status = "resolved"
        /\ IsLuminanceMatrix(grayResult[1].matrix, grayArgs)
        /\ (grayArgs.width = 0 \/ grayArgs.height = 0) => EmptyMatrix(grayResult[1].matrix)

(***************************************************************************)
(* C18.  Column locality of the synthesis.                                 *)
(***************************************************************************)
\* The matrix of the one column c of m.
ColumnMatrix(m, c) == [r \in 1 .. Len(m) |-> <<m[r][c]>>]

\* The samples of the un-normalized signal at [c * spc, (c + 1) * spc), for
\* the column c counted from 1.
Segment(raw, c) == [t \in 1 .. FloorSamples |-> raw[(c - 1) * FloorSamples + t]]

\* The un-normalized signal of the one column c, synthesized from t = 0 with
\* the other arguments of the call.
ColumnAlone(c) ==
    generateAudioFromImage(ColumnMatrix(synthArgs.imageArray, c), synthArgs.sampleRate,
                           synthArgs.durationPerColumn, synthArgs.freqRange[1],
                           synthArgs.freqRange[2], synthArgs.waveShape).raw

ZeroColumn(m, c) == \A r \in 1 .. Len(m) : m[r][c] = 0

\* C18: the samples at [c * spc, (c + 1) * spc) of the un-normalized signal
\* are those of column c alone synthesized from t = 0, whatever the other
\* columns hold; a column of zeros yields only zero samples in its segment.
C18_ColumnLocality ==
    (Settled /\ Result.status = "resolved") =>
        /\ Len(Result.raw) = Width * FloorSamples
        /\ \A c \in 1 .. Width :
              /\ Segment(Result.raw, c) = ColumnAlone(c)
              /\ ZeroColumn(synthArgs.imageArray, c) =>
                     \A t \in 1 .. FloorSamples : IsZero(Segment(Result.raw, c)[t])

\* A second column that sounds after a first column of zeros, on rows of
\* different frequencies.
C18_Witness ==
    /\ Settled
    /\ Result.status = "resolved"
    /\ Width = 2
    /\ Height > 1
    /\ FloorSamples > 1
    /\ synthArgs.freqRange[1] # synthArgs.freqRange[2]
    /\ ZeroColumn(synthArgs.imageArray, 1)
    /\ \E t \in 1 .. FloorSamples : ~IsZero(Segment(Result.raw, 2)[t])

(***************************************************************************)
(* C20.  The loading flag.                                                 *)
(***************************************************************************)
InFlight == task # Null

\* The step is the catch of a recomputation: it ends before the audio was
\* generated.
Throws == InFlight /\ task[1].stage = "imageArray" /\ task' = Null

\* The step is the last of a recomputation that succeeded.
Succeeds == InFlight /\ task[1].stage = "audio" /\ task' = Null

\* C20: every recomputation that starts eventually sets isLoading back to
\* false, whether it succeeds or throws; from its start to its throw
\* audioBuffer keeps its value; and whenever isLoading is false no
\* recomputation is in flight.
C20_LoadingEnds ==
    /\ InFlight ~> (~InFlight /\ ~isLoading)
    /\ [][(InFlight \/ task' # Null) /\ ~Succeeds => audioBuffer' = audioBuffer]_vars
    /\ [][Throws => ~isLoading' /\ audioBuffer' = audioBuffer]_vars
    /\ [](~isLoading => ~InFlight)

\* The load of the first image threw: the image is shown, no audio was ever
\* generated and isLoading is false again.
C20_Witness ==
    /\ imageSrc # 0
    /\ audioBuffer = Null
    /\ ~InFlight
    /\ ~isLoading
    /\ fileLoads = {}

(***************************************************************************)
(* C21.  The fields of the settings an image load writes.                  *)
(***************************************************************************)
\* A step of handleImageLoaded.
LoadStep == InFlight /\ task[1].kind = "load"

\* C21: an image load changes at most the duration, minFreq and maxFreq
\* fields of the settings: maxSize, density and waveShape keep the values the
\* user set last, also when a settings change was made between the selection
\* of the file and the call of handleImageLoaded.
C21_LoadKeepsUserFields ==
    [][LoadStep =>
          /\ settings'.maxSize = settings.maxSize
          /\ settings'.density = settings.density
          /\ settings'.waveShape = settings.waveShape]_vars

(***************************************************************************)
(* C22.  The playback state machine.                                       *)
(***************************************************************************)
\* The sources that were started and whose onended has not run.
LiveSources == { i \in DOMAIN sources : sources[i] # "ended" }

\* C22: at most one source is started and not yet ended at any time;
\* handlePlay does nothing when audioBuffer is null or isPlaying is true;
\* isPlaying becomes false only when a source's onended runs; and
\* audioSourceRef is non-null exactly while a started source has not ended.
C22_PlaybackStateMachine ==
    /\ [](Cardinality(LiveSources) <= 1)
    /\ [](audioSourceRef # 0 <=> LiveSources # {})
    /\ [](audioSourceRef # 0 => audioSourceRef \in LiveSources)
    /\ [][(plays' # plays /\ (audioBuffer = Null \/ isPlaying)) =>
              UNCHANGED <<isPlaying, audioSourceRef, sources>>]_vars
    /\ [][(isPlaying /\ ~isPlaying') =>
              \E i \in DOMAIN sources : sources[i] = "finished" /\ sources'[i] = "ended"]_vars

\* A second source plays after the first was paused and ended, and Play was
\* pressed once more while it plays.
C22_Witness ==
    /\ Len(sources) = 2
    /\ sources[1] = "ended"
    /\ sources[2] = "playing"
    /\ isPlaying
    /\ audioSourceRef = 2
    /\ plays = 3

(***************************************************************************)
(* C23.  Termination of computeSpectrogramData.                            *)
(***************************************************************************)
\* start = i * hopLength of the iteration the frame loop is at.
FrameStart == frameIndex * HopLength(FftSize)

\* C23: computeSpectrogramData terminates for every finite signal and every
\* power-of-two fftSize, the sizes 1 and 2 included: the call returns, and
\* every iteration of the frame loop advances the frame start.
C23_Terminates ==
    /\ <>Returned
    /\ [][frameIndex' # frameIndex => FrameStart' > FrameStart]_vars

(***************************************************************************)
(* C24.  The range of the advisor's patch.                                 *)
(***************************************************************************)
\* Every cell is a number of [0, 1].
CellsInUnitRange(m) ==
    \A r \in DOMAIN m : \A c \in DOMAIN m[r] :
        IsFinite(m[r][c]) /\ m[r][c].n >= 0 /\ m[r][c].n <= m[r][c].d

WithinSlider(field, value) == SliderMin(field) <= value /\ value <= SliderMax(field)

\* C24: for every non-empty matrix with all cells in [0, 1] the patch has
\* 3.0 <= duration <= 12.0 and 20 <= minFreq < maxFreq <= 20000, and each
\* value lies within the range of its ControlPanel slider.
C24_PatchWithinRanges ==
    (Advised /\ NonEmptyMatrix(adviceArgs.imageArray) /\ CellsInUnitRange(adviceArgs.imageArray)) =>
        /\ Patch.set /\ ~Patch.nan
        /\ 30 <= Patch.duration /\ Patch.duration <= 120
        /\ 20 <= Patch.minFreq
        /\ Patch.minFreq < Patch.maxFreq
        /\ Patch.maxFreq <= 20000
        /\ WithinSlider("duration", Patch.duration)
        /\ WithinSlider("minFreq", Patch.minFreq)
        /\ WithinSlider("maxFreq", Patch.maxFreq)

\* The advisor was given a matrix of half cells 0 and half cells 1: the
\* greatest contrast, and so the lowest minFreq and the highest maxFreq.
C24_Witness ==
    /\ Advised
    /\ NonEmptyMatrix(adviceArgs.imageArray)
    /\ CellsInUnitRange(adviceArgs.imageArray)
    /\ Patch.duration = 75
    /\ Patch.minFreq = 50
    /\ Patch.maxFreq = 17050

(***************************************************************************)
(* C25.  Settings changes without an image, and timers after the unmount.  *)
(***************************************************************************)
\* The last call of handleSettingsChange.
LastCall == calls[Len(calls)]

\* C25: while imageSrc is null, settings changes update the settings but
\* schedule no debounce timer, start no recomputation and leave audioBuffer
\* null; and after the unmount no debounce timer is pending, so none starts a
\* recomputation.
C25_NoImageNoTimer ==
    /\ imageSrc = 0 =>
          /\ calls # <<>> => settings = LastCall.settings
          /\ \A i \in DOMAIN calls : calls[i].timer = 0
          /\ timers = {}
          /\ decoding = {}
          /\ starts = <<>>
          /\ audioBuffer = Null
    /\ ~mounted => timers = {}

\* The component was unmounted while the timer of the last settings change
\* was pending: its delay has passed and no recomputation has started for it.
C25_Witness ==
    /\ ~mounted
    /\ calls # <<>>
    /\ LastCall.timer # 0
    /\ LastCall.age = DebounceMs
    /\ decoding = {}
    /\ ~InFlight
    /\ \A i \in DOMAIN starts : starts[i].timer # LastCall.timer

====
